---- MODULE Spec2Model ----
(***************************************************************************)
(* Model of the intent guard of barry-executor: the middleware             *)
(* BBBIntentGuard.dispatch (src/bbb_intent_guard.py) in front of the       *)
(* order handler intent (src/executor/worker.py).                          *)
(*                                                                         *)
(* Time is the integer clock; one unit stands for one second of            *)
(* time.time().  A UTC day is DayLen units long, and the session times     *)
(* are times of day in the same unit.  The clock moves through Instants.   *)
(***************************************************************************)
EXTENDS Integers, Sequences, FiniteSets, TLC

\* ---- Bounds of the model
NumReqs == 2        \* request slots: requests in flight at the same time
MaxArrivals == 3    \* requests dispatched in one behaviour
MaxRateArrivals == MaxArrivals + 1   \* requests dispatched when the global rate ceiling is looked at
DayLen == 4         \* clock units in one UTC day

Reqs == 1..NumReqs
\* the instants the clock takes: three on a Thursday (the epoch's day), one in
\* the session of the Friday, one in the session hours of the Saturday
Instants == {1, 2, 3, DayLen + 1, 2 * DayLen + 1}
StartTime == CHOOSE t \in Instants : \A u \in Instants : t <= u

\* ---- Config (env-driven in the source; small values here)
MAX_POSITIONS == 2
MAX_TRADES_DAY == 2
SESSION_START == 1
SESSION_END == 2
TS_SKEW_SECONDS == 1
IDEMP_TTL_SECONDS == 3
RL_MAX_REQ == 2
RL_WINDOW_S == 2
RL_GLOBAL_MAX_REQ == 3
RL_GLOBAL_WINDOW_S == 2
RATE_GLOBAL_MAXLEN == 1000

Secrets == {"", "s3cret"}
\* the configurations: <<SHARED_SECRET, REQUIRE_V2_SIGNATURE>>
Configs == {<<"s3cret", FALSE>>, <<"s3cret", TRUE>>, <<"", FALSE>>}
PATH_ALLOWLIST == {" /", "/health", "/healthz", "/docs", "/openapi.json", "/bars", "/status", "/account"}

VARIABLES
  clock,          \* time.time()
  SHARED_SECRET,  \* env SHARED_SECRET, fixed at start
  V2_REQUIRED,    \* env REQUIRE_V2_SIGNATURE, fixed at start
  rate_ip,        \* _rate_ip: identity -> timestamps
  rate_global,    \* _rate_global
  idempotency,    \* _idempotency: key -> expires_at
  trades_today,   \* _trades_today: <<day, count>>
  state_lock,     \* _state_lock: 0 when free, else the holder
  pc,             \* where each request is in dispatch
  request,        \* the request object dispatch holds (rebound on rewrite)
  now,            \* local now of dispatch
  corr,           \* local corr of dispatch
  today,          \* local today of dispatch
  resp,           \* the response returned for the request
  trace,          \* the stages that ran for the request, in order
  pos_reply,      \* what the position source answered to the request
  arrivals        \* requests dispatched so far

vars == <<pos_reply, clock, SHARED_SECRET, V2_REQUIRED, rate_ip, rate_global, idempotency, trades_today, state_lock, pc, request, now, corr, today, resp, trace, arrivals>>

\* ---- Values
Absent == <<>>
Hdr(v) == <<v>>
Truthy(h) == h # Absent /\ h[1] # ""
NoRequest == [idle |-> TRUE]
NoResp == [by |-> "nobody"]
NoReply == [kind |-> "none", n |-> 0]
NoCorr == [hdr |-> "", key |-> "", t |-> -1]

\* hmac.new(key, data, sha256).hexdigest(): data is the body, or "{ts}.{body}"
hmac_hex(key, data) == [key |-> key, data |-> data]
\* the signed bytes: body, and f"{ts}.{body}"
Raw(body) == [fmt |-> "body", ts |-> 0, body |-> body]
Stamped(ts, body) == [fmt |-> "ts.body", ts |-> ts, body |-> body]
\* str(int(ts_hdr)): the header text is a number or is not
TsNum(n) == [num |-> TRUE, val |-> n]
TsJunk == [num |-> FALSE, val |-> 0]

\* json.loads of the bodies the callers send
Json(body) ==
  CASE body = "buy"  -> [valid |-> TRUE, symbol |-> "AAPL", side |-> "buy", qty |-> TRUE, dry_run |-> FALSE]
    [] body = "sell" -> [valid |-> TRUE, symbol |-> "AAPL", side |-> "Sell", qty |-> TRUE, dry_run |-> FALSE]
    [] body = "dry"  -> [valid |-> TRUE, symbol |-> "AAPL", side |-> "BUY", qty |-> TRUE, dry_run |-> TRUE]
    [] OTHER         -> [valid |-> FALSE, symbol |-> "", side |-> "", qty |-> FALSE, dry_run |-> FALSE]
Bodies == {"buy", "sell", "dry", "junk"}

Lower(s) ==
  CASE s = "BUY" -> "buy"
    [] s = "Sell" -> "sell"
    [] OTHER -> s

\* _json_body_fields: (symbol, side, dry_run); (None, None, False) on invalid JSON
json_body_fields(body) ==
  IF Json(body).valid
  THEN [symbol |-> Json(body).symbol, side |-> Json(body).side, dry_run |-> Json(body).dry_run]
  ELSE [symbol |-> "", side |-> "", dry_run |-> FALSE]

\* _client_ip
client_ip(rq) ==
  IF rq.xfwd # <<>> THEN rq.xfwd[1]
  ELSE IF rq.client # "" THEN rq.client ELSE "unknown"
IPs == {"a", "b", "unknown"}

\* datetime.now(timezone.utc).strftime("%Y-%m-%d")
UtcDay(t) == t \div DayLen
\* datetime.now(tz): weekday (0 = Monday; the epoch is a Thursday) and time of day
LocalWeekday(t) == (UtcDay(t) + 3) % 7
LocalTime(t) == t % DayLen

\* (mutant) the end of the session is excluded
within_window_before_end(t) ==
  IF LocalWeekday(t) > 4 THEN FALSE
  ELSE SESSION_START <= LocalTime(t) /\ LocalTime(t) < SESSION_END

\* _within_window_london
within_window_london(t) ==
  IF LocalWeekday(t) > 4 THEN FALSE
  ELSE SESSION_START <= LocalTime(t) /\ LocalTime(t) <= SESSION_END

\* (mutant) an if in place of the while: at most one entry is dropped
EvictOnce(dq, t, window) ==
  IF dq # <<>> /\ t - Head(dq) > window THEN Tail(dq) ELSE dq

RECURSIVE Evict(_, _, _)
\* while dq and now - dq[0] > window: dq.popleft()
Evict(dq, t, window) ==
  IF dq # <<>> /\ t - Head(dq) > window THEN Evict(Tail(dq), t, window) ELSE dq

\* deque.append with maxlen
AppendMax(dq, x, maxlen) ==
  IF Len(dq) >= maxlen THEN Append(Tail(dq), x) ELSE Append(dq, x)

\* the correlation id: pass-through or generated
CorrOf(rq, secret, t) ==
  IF Truthy(rq.x_correlation_id) THEN [hdr |-> rq.x_correlation_id[1], key |-> "", t |-> -1]
  ELSE IF Truthy(rq.x_request_id) THEN [hdr |-> rq.x_request_id[1], key |-> "", t |-> -1]
  ELSE [hdr |-> "", key |-> (IF secret # "" THEN secret ELSE "bbb"), t |-> t]

\* JSONResponse({"status":"rejected","reason":...,"correlation_id":corr}, status_code=...)
Rejected(reason, code, c) ==
  [by |-> "guard", shape |-> "rejected", reason |-> reason, status |-> code, body_corr |-> c, hdr_corr |-> NoCorr, submitted |-> FALSE]
\* JSONResponse({"detail": ...}, status_code=...)
Detail(detail, code) ==
  [by |-> "guard", shape |-> "detail", reason |-> detail, status |-> code, body_corr |-> NoCorr, hdr_corr |-> NoCorr, submitted |-> FALSE]

TypeOK ==
  /\ clock \in Instants
  /\ SHARED_SECRET \in Secrets
  /\ V2_REQUIRED \in BOOLEAN
  /\ state_lock \in 0..NumReqs
  /\ arrivals \in 0..MaxRateArrivals

Init ==
  /\ clock = StartTime
  /\ \E c \in Configs : SHARED_SECRET = c[1] /\ V2_REQUIRED = c[2]
  /\ rate_ip = [i \in IPs |-> <<>>]
  /\ rate_global = <<>>
  /\ idempotency = [k \in {} |-> 0]
  /\ trades_today = <<-1, 0>>
  /\ state_lock = 0
  /\ pc = [r \in Reqs |-> "idle"]
  /\ request = [r \in Reqs |-> NoRequest]
  /\ now = [r \in Reqs |-> -1]
  /\ corr = [r \in Reqs |-> NoCorr]
  /\ today = [r \in Reqs |-> -1]
  /\ resp = [r \in Reqs |-> NoResp]
  /\ trace = [r \in Reqs |-> <<>>]
  /\ pos_reply = [r \in Reqs |-> NoReply]
  /\ arrivals = 0


\* ---- The requests callers send at time t
CallerKey == "s3cret"
MkRequest(m, p, b, n, c, i, a) ==
  [method |-> m, path |-> p, body |-> b, xfwd |-> n[1], client |-> n[2],
   x_correlation_id |-> c[1], x_request_id |-> c[2],
   idempotency_key |-> i[1], x_idempotency_key |-> i[2],
   x_signature_v2 |-> a[1], x_signature_ts |-> a[2], x_signature |-> a[3]]

\* the network identity (x-forwarded-for, client host) with the correlation headers
FromA == <<<<>>, "a">>
FromB == <<<<"b", "a">>, "a">>
NoCorrHdr == <<Absent, Absent>>
BothCorrHdr == <<Hdr("c1"), Hdr("c2")>>
ReqIdHdr == <<Absent, Hdr("c2")>>
\* the idempotency headers
NoKey == <<Absent, Absent>>
Key1 == <<Hdr("k1"), Absent>>
Key2 == <<Hdr(""), Hdr("k2")>>
\* the signature headers: versioned signature, timestamp, legacy signature
Good1(b) == hmac_hex(CallerKey, Raw(b))
Bad1(b) == hmac_hex("wrong", Raw(b))
Unsigned == <<Absent, Absent, Absent>>
LegacyGood(b) == <<Absent, Absent, Hdr(Good1(b))>>
LegacyBad(b) == <<Absent, Absent, Hdr(Bad1(b))>>
V2Good(ts, b) == <<Hdr(hmac_hex(CallerKey, Stamped(ts, b))), Hdr(TsNum(ts)), <<Bad1(b), Good1(b)>>>>
V2Only(ts, b) == <<Hdr(hmac_hex(CallerKey, Stamped(ts, b))), Hdr(TsNum(ts)), Absent>>
V2Bad(ts, b) == <<Hdr(hmac_hex("wrong", Stamped(ts, b))), Hdr(TsNum(ts)), Hdr(Good1(b))>>
V2NoTs(ts, b) == <<Hdr(hmac_hex(CallerKey, Stamped(ts, b))), Absent, Hdr(Good1(b))>>
V2JunkTs(ts, b) == <<Hdr(hmac_hex(CallerKey, Stamped(ts, b))), Hdr(TsJunk), Hdr(Good1(b))>>

\* every signature case, on one body
AuthFamily(t) ==
  { MkRequest("POST", "/intent", "buy", FromA, BothCorrHdr, NoKey, a) :
      a \in { Unsigned, LegacyBad("buy"), V2Bad(t, "buy"), V2NoTs(t, "buy"), V2JunkTs(t, "buy"),
              V2Only(t - TS_SKEW_SECONDS, "buy"), V2Only(t + TS_SKEW_SECONDS, "buy"),
              V2Good(t - TS_SKEW_SECONDS - 1, "buy"), V2Good(t + TS_SKEW_SECONDS + 1, "buy") } }

\* well-signed requests: every body, with and without a key
BodyFamily(t) ==
  UNION { { MkRequest("POST", "/intent", b, FromA, NoCorrHdr, ia[1], ia[2]) :
              ia \in {<<NoKey, LegacyGood(b)>>, <<Key1, LegacyGood(b)>>, <<Key1, V2Good(t, b)>>} } : b \in Bodies }

\* another identity, another key, a badly signed request with a key
MixFamily(t) ==
  { MkRequest("POST", "/intent", "buy", FromB, ReqIdHdr, Key2, LegacyGood("buy")),
    MkRequest("POST", "/intent", "sell", FromB, ReqIdHdr, Key1, V2Good(t, "sell")),
    MkRequest("POST", "/intent", "buy", FromB, NoCorrHdr, Key1, LegacyBad("buy")),
    MkRequest("POST", "/intent/", "dry", FromA, BothCorrHdr, Key2, Unsigned) }

Guarded(t) == AuthFamily(t) \cup BodyFamily(t) \cup MixFamily(t)

\* requests the guard passes through
Others(t) ==
  { MkRequest(mp[1], mp[2], "buy", FromA, BothCorrHdr, Key1, LegacyGood("buy")) : mp \in {<<"GET", "/intent">>, <<"POST", "/health">>, <<"POST", "/">>} }

Requests(t) == Guarded(t) \cup Others(t)

\* path.rstrip("/")
Rstrip(p) ==
  CASE p = "/intent/" -> "/intent"
    [] p = "/" -> ""
    [] OTHER -> p

\* (mutant) the method is not looked at
IsGuardedAnyMethod(rq) == rq.path \notin PATH_ALLOWLIST /\ Rstrip(rq.path) = "/intent"
IsGuarded(rq) == rq.path \notin PATH_ALLOWLIST /\ rq.method = "POST" /\ Rstrip(rq.path) = "/intent"

\* request.headers.get("idempotency-key") or request.headers.get("x-idempotency-key")
IdemOf(rq) ==
  IF Truthy(rq.idempotency_key) THEN rq.idempotency_key[1]
  ELSE IF Truthy(rq.x_idempotency_key) THEN rq.x_idempotency_key[1] ELSE ""

Done(r, response) ==
  /\ resp' = [resp EXCEPT ![r] = response]
  /\ pc' = [pc EXCEPT ![r] = "done"]

Ran(r, stage) == trace' = [trace EXCEPT ![r] = Append(@, stage)]

\* ---- The event loop: one task runs at a time and gives way only at an
\* await (the position source, call_next) or when it returns
SyncPcs == {"rate", "rate_cs", "sig", "idem", "idem_cs", "session", "cap", "cap_cs", "incr", "incr_cs"}
Scheduled(r) == \A q \in Reqs \ {r} : pc[q] \notin SyncPcs
InFlight == {q \in Reqs : pc[q] # "idle"}

\* ---- dispatch, lines 100-122: a request from rqs arrives in the free slot r
DispatchUpTo(r, rqs, limit, most) ==
  /\ pc[r] = "idle"
  /\ \A q \in Reqs : q < r => pc[q] # "idle"
  /\ Cardinality(InFlight) < limit
  /\ Scheduled(r)
  /\ arrivals < most
  /\ \E rq \in rqs :
       /\ request' = [request EXCEPT ![r] = rq]
       /\ IF IsGuarded(rq)
          THEN /\ pc' = [pc EXCEPT ![r] = "rate"]
               /\ now' = [now EXCEPT ![r] = clock]
               /\ corr' = [corr EXCEPT ![r] = CorrOf(rq, SHARED_SECRET, clock)]
          ELSE /\ pc' = [pc EXCEPT ![r] = "pass_wait"]
               /\ UNCHANGED <<now, corr>>
  /\ arrivals' = arrivals + 1
  /\ UNCHANGED <<pos_reply, clock, SHARED_SECRET, V2_REQUIRED, rate_ip, rate_global, idempotency, trades_today, state_lock, today, resp, trace>>

DispatchFrom(r, rqs, limit) == DispatchUpTo(r, rqs, limit, MaxArrivals)

\* requests come one at a time
Dispatch(r) == DispatchFrom(r, Requests(clock), 1)

\* async with _state_lock: entering one of the four critical sections
LockedPc(p) ==
  CASE p = "rate" -> "rate_cs"
    [] p = "idem" -> "idem_cs"
    [] p = "cap" -> "cap_cs"
    [] p = "incr" -> "incr_cs"

\* (mutant) the lock is kept after the increment
ReleaseUnlessCounted(r) == state_lock' = IF pc[r] = "incr_cs" THEN state_lock ELSE 0
\* (mutant) the lock is kept after the critical section
ReleaseNever(r) == UNCHANGED state_lock
\* leaving the async with block, by falling out of it or by a return inside it
Release(r) == state_lock' = 0

AcquireLock(r) ==
  /\ pc[r] \in {"rate", "idem", "cap", "incr"}
  /\ Scheduled(r)
  /\ pc[r] = "idem" => IdemOf(request[r]) # ""
  /\ state_lock = 0
  /\ state_lock' = r
  /\ pc' = [pc EXCEPT ![r] = LockedPc(pc[r])]
  /\ UNCHANGED <<pos_reply, clock, SHARED_SECRET, V2_REQUIRED, rate_ip, rate_global, idempotency, trades_today, request, now, corr, today, resp, trace, arrivals>>

\* ---- Rate limit, lines 123-130
\* dq.append(now); while dq and now - dq[0] > window: dq.popleft()
RateWindow(dq, t, window) == Evict(Append(dq, t), t, window)
\* (mutant) the global window is pruned but the request is not recorded in it
GlobalWindowUnrecorded(dq, t, window) == Evict(dq, t, window)
GlobalWindow(dq, t, window) == Evict(AppendMax(dq, t, RATE_GLOBAL_MAXLEN), t, window)
\* (mutant) the ceiling itself is rejected
RateExceededAtCeiling(dq, g) == Len(dq) >= RL_MAX_REQ \/ Len(g) >= RL_GLOBAL_MAX_REQ
RateExceeded(dq, g) == Len(dq) > RL_MAX_REQ \/ Len(g) > RL_GLOBAL_MAX_REQ
\* (mutant) the rejection is built but dispatch goes on to the signature
AfterRateNoReturn(r, exceeded) ==
  /\ pc' = [pc EXCEPT ![r] = "sig"]
  /\ resp' = [resp EXCEPT ![r] = IF exceeded THEN Rejected("rate_limit", 429, corr[r]) ELSE @]

\* where dispatch goes after the rate-limit test
AfterRate(r, exceeded) ==
  IF exceeded THEN Done(r, Rejected("rate_limit", 429, corr[r]))
  ELSE pc' = [pc EXCEPT ![r] = "sig"] /\ UNCHANGED resp

RateLimit(r) ==
  /\ pc[r] = "rate_cs"
  /\ Scheduled(r)
  /\ state_lock = r
  /\ LET ip == client_ip(request[r])
         dq == RateWindow(rate_ip[ip], now[r], RL_WINDOW_S)
         g == GlobalWindow(rate_global, now[r], RL_GLOBAL_WINDOW_S)
     IN /\ rate_ip' = [rate_ip EXCEPT ![ip] = dq]
        /\ rate_global' = g
        /\ AfterRate(r, RateExceeded(dq, g))
  /\ Ran(r, "RateLimit")
  /\ Release(r)
  /\ UNCHANGED <<pos_reply, clock, SHARED_SECRET, V2_REQUIRED, idempotency, trades_today, request, now, corr, today, arrivals>>

\* ---- Signature, lines 132-163
Abs(x) == IF x < 0 THEN -x ELSE x

\* (mutant) the timestamp is parsed but its age is not checked
VerifyV2AnyAge(rq, t, secret) ==
  LET tsh == rq.x_signature_ts[1]
  IN IF ~tsh.num THEN "invalid timestamp"
     ELSE IF secret = "" THEN "server missing secret"
     ELSE IF hmac_hex(secret, Stamped(tsh.val, rq.body)) # rq.x_signature_v2[1] THEN "bad v2 signature"
     ELSE "ok"

\* the outcome of the versioned check, lines 137-147
VerifyV2(rq, t, secret) ==
  LET tsh == rq.x_signature_ts[1]
  IN IF ~tsh.num THEN "invalid timestamp"
     ELSE IF Abs(t - tsh.val) > TS_SKEW_SECONDS THEN "stale signature"
     ELSE IF secret = "" THEN "server missing secret"
     ELSE IF hmac_hex(secret, Stamped(tsh.val, rq.body)) # rq.x_signature_v2[1] THEN "bad v2 signature"
     ELSE "ok"

\* (mutant) the header is appended and the caller's headers are kept
RewriteAppend(rq, secret) == [rq EXCEPT !.x_signature = Append(@, hmac_hex(secret, Raw(rq.body)))]

\* the request rebuilt with the injected legacy header, lines 149-158
Rewrite(rq, secret) == [rq EXCEPT !.x_signature = <<hmac_hex(secret, Raw(rq.body))>>]

HasV2(rq) == rq.x_signature_v2 # Absent /\ rq.x_signature_ts # Absent

\* (mutant) the mandate is not looked at
NoV2Allowed(required) == "ok"
\* without the versioned headers, lines 159-163
NoV2(required) == IF required THEN "v2 signature required" ELSE "ok"

SigStatus(detail) == IF detail = "server missing secret" THEN 500 ELSE 403

Signature(r) ==
  /\ pc[r] = "sig"
  /\ Scheduled(r)
  /\ LET rq == request[r]
     IN IF HasV2(rq)
        THEN LET v == VerifyV2(rq, now[r], SHARED_SECRET)
             IN IF v = "ok"
                THEN /\ request' = [request EXCEPT ![r] = Rewrite(rq, SHARED_SECRET)]
                     /\ pc' = [pc EXCEPT ![r] = "idem"]
                     /\ UNCHANGED resp
                ELSE /\ Done(r, Detail(v, SigStatus(v)))
                     /\ UNCHANGED request
        ELSE LET v == NoV2(V2_REQUIRED)
             IN IF v = "ok"
                THEN /\ pc' = [pc EXCEPT ![r] = "idem"]
                     /\ UNCHANGED <<resp, request>>
                ELSE /\ Done(r, Detail(v, SigStatus(v)))
                     /\ UNCHANGED request
  /\ Ran(r, "Signature")
  /\ UNCHANGED <<pos_reply, clock, SHARED_SECRET, V2_REQUIRED, rate_ip, rate_global, idempotency, trades_today, state_lock, now, corr, today, arrivals>>

\* ---- Idempotency, lines 165-174
\* if idem: is false
IdemSkip(r) ==
  /\ pc[r] = "idem"
  /\ Scheduled(r)
  /\ IdemOf(request[r]) = ""
  /\ pc' = [pc EXCEPT ![r] = "session"]
  /\ Ran(r, "Idempotency")
  /\ UNCHANGED <<pos_reply, clock, SHARED_SECRET, V2_REQUIRED, rate_ip, rate_global, idempotency, trades_today, state_lock, request, now, corr, today, resp, arrivals>>

\* (mutant) the claim time is compared in place of the expiry
ExpiredSinceClaim(m, t) == {k \in DOMAIN m : m[k] - IDEMP_TTL_SECONDS < t}
\* (mutant) the comparison the wrong way round: live entries are purged
ExpiredLive(m, t) == {k \in DOMAIN m : m[k] > t}

\* expired = [k for k,exp in _idempotency.items() if exp < now]
Expired(m, t) == {k \in DOMAIN m : m[k] < t}
\* (mutant) every entry is purged
PruneAll(m, t) == [k \in {} |-> 0]
Prune(m, t) == [k \in DOMAIN m \ Expired(m, t) |-> m[k]]
Put(m, k, v) == [x \in DOMAIN m \cup {k} |-> IF x = k THEN v ELSE m[x]]

\* (mutant) a duplicate stores its own expiry
ClaimOverwriting(m, k, v) == Put(m, k, v)
\* if idem in _idempotency: return ...; _idempotency[idem] = now + IDEMP_TTL_SECONDS
Claim(m, k, v) == IF k \in DOMAIN m THEN m ELSE Put(m, k, v)

Idempotency(r) ==
  /\ pc[r] = "idem_cs"
  /\ Scheduled(r)
  /\ state_lock = r
  /\ LET idem == IdemOf(request[r])
         m == Prune(idempotency, now[r])
     IN /\ idempotency' = Claim(m, idem, now[r] + IDEMP_TTL_SECONDS)
        /\ IF idem \in DOMAIN m
           THEN Done(r, Rejected("duplicate", 409, corr[r]))
           ELSE /\ pc' = [pc EXCEPT ![r] = "session"]
                /\ UNCHANGED resp
  /\ Ran(r, "Idempotency")
  /\ Release(r)
  /\ UNCHANGED <<pos_reply, clock, SHARED_SECRET, V2_REQUIRED, rate_ip, rate_global, trades_today, request, now, corr, today, arrivals>>

\* ---- Session window, lines 176-184
Session(r) ==
  /\ pc[r] = "session"
  /\ Scheduled(r)
  /\ IF ~within_window_london(clock)
     THEN /\ Done(r, Rejected("outside_session", 403, corr[r]))
          /\ UNCHANGED today
     ELSE /\ today' = [today EXCEPT ![r] = UtcDay(clock)]
          /\ pc' = [pc EXCEPT ![r] = "cap"]
          /\ UNCHANGED resp
  /\ Ran(r, "Session")
  /\ UNCHANGED <<pos_reply, clock, SHARED_SECRET, V2_REQUIRED, rate_ip, rate_global, idempotency, trades_today, state_lock, request, now, corr, arrivals>>

\* ---- Trade cap, lines 185-196
\* day, cnt = _trades_today; if day != today: _trades_today = (today, 0)
\* (mutant) the day is replaced and the count carried over
RolledKeepingCount(td, d) == <<d, td[2]>>
\* (mutant) the check takes a place in the count
RolledReserving(td, d) == IF td[1] # d THEN <<d, 1>> ELSE <<d, td[2] + 1>>
Rolled(td, d) == IF td[1] # d THEN <<d, 0>> ELSE td
\* (mutant) the ceiling is not enforced
TradeCapHitNever(cnt, dry_run) == FALSE
\* (mutant) off by one: the ceiling itself is admitted
TradeCapHitAbove(cnt, dry_run) == ~dry_run /\ cnt > MAX_TRADES_DAY
TradeCapHit(cnt, dry_run) == ~dry_run /\ cnt >= MAX_TRADES_DAY
NeedsPositions(f) == Lower(f.side) = "buy" /\ ~f.dry_run

TradeCap(r) ==
  /\ pc[r] = "cap_cs"
  /\ Scheduled(r)
  /\ state_lock = r
  /\ LET f == json_body_fields(request[r].body)
         td == Rolled(trades_today, today[r])
     IN /\ trades_today' = td
        /\ IF TradeCapHit(td[2], f.dry_run)
           THEN /\ Done(r, Rejected("trade_cap_reached", 429, corr[r]))
                /\ Ran(r, "TradeCap")
           ELSE IF NeedsPositions(f)
           THEN /\ pc' = [pc EXCEPT ![r] = "pos_wait"]
                /\ Ran(r, "TradeCap")
                /\ UNCHANGED resp
           ELSE /\ pc' = [pc EXCEPT ![r] = "down_wait"]
                /\ trace' = [trace EXCEPT ![r] = @ \o <<"TradeCap", "Forwarded">>]
                /\ UNCHANGED resp
  /\ Release(r)
  /\ UNCHANGED <<pos_reply, clock, SHARED_SECRET, V2_REQUIRED, rate_ip, rate_global, idempotency, request, now, corr, today, arrivals>>

\* ---- Position cap, lines 58-72 and 197-199
MaxOpen == MAX_POSITIONS + 1
\* a list of n positions, or one of the ways to get no list: the broker is not
\* configured, a status other than 200, a body that is not a list, an
\* exception (transport failure, timeout, bad JSON)
PositionReplies == [kind : {"list"}, n : 0..MaxOpen] \cup [kind : {"unconfigured", "non200", "notlist", "error"}, n : {0}]
\* (mutant) fail closed: without a list the cap is taken as reached
positions_count_fail_closed(reply) == IF reply.kind = "list" THEN reply.n ELSE MAX_POSITIONS
positions_count(reply) == IF reply.kind = "list" THEN reply.n ELSE 0

PositionCap(r) ==
  /\ pc[r] = "pos_wait"
  /\ Scheduled(r)
  /\ \E reply \in PositionReplies :
       /\ pos_reply' = [pos_reply EXCEPT ![r] = reply]
       /\ LET pos_count == positions_count(reply)
          IN IF pos_count >= MAX_POSITIONS
             THEN /\ Done(r, Rejected("position_cap_reached", 409, corr[r]))
                  /\ Ran(r, "PositionCap")
             ELSE /\ pc' = [pc EXCEPT ![r] = "down_wait"]
                  /\ trace' = [trace EXCEPT ![r] = @ \o <<"PositionCap", "Forwarded">>]
                  /\ UNCHANGED resp
  /\ UNCHANGED <<clock, SHARED_SECRET, V2_REQUIRED, rate_ip, rate_global, idempotency, trades_today, state_lock, request, now, corr, today, arrivals>>

\* ---- The downstream handler, src/executor/worker.py lines 18-26 and 99-154
HandlerResp(code, detail, submitted) ==
  [by |-> "handler", shape |-> "handler", reason |-> detail, status |-> code, body_corr |-> NoCorr, hdr_corr |-> NoCorr, submitted |-> submitted]

\* (mutant) any signature header is accepted
verify_signature_present(rq, secret) ==
  IF secret = "" THEN 500
  ELSE IF rq.x_signature = Absent THEN 403
  ELSE 200

\* _verify_signature
verify_signature(rq, secret) ==
  IF secret = "" THEN 500
  ELSE IF rq.x_signature = Absent \/ hmac_hex(secret, Raw(rq.body)) # rq.x_signature[1] THEN 403
  ELSE 200

BrokerOutcomes == {"filled", "refused", "raise"}

\* intent: the response, or "raise" when the broker call raises
intent(rq, secret, broker) ==
  LET data == Json(rq.body)
      v == verify_signature(rq, secret)
  IN IF v = 500 THEN HandlerResp(500, "Missing SHARED_SECRET", FALSE)
     ELSE IF v = 403 THEN HandlerResp(403, "Bad signature", FALSE)
     ELSE IF ~data.valid THEN HandlerResp(400, "Invalid JSON", FALSE)
     ELSE IF data.symbol = "" THEN HandlerResp(400, "symbol required", FALSE)
     ELSE IF Lower(data.side) \notin {"buy", "sell"} THEN HandlerResp(400, "side must be 'buy' or 'sell'", FALSE)
     ELSE IF ~data.qty THEN HandlerResp(400, "qty or notional required", FALSE)
     ELSE IF data.dry_run THEN HandlerResp(200, "dry_run_ok", FALSE)
     ELSE IF broker = "filled" THEN HandlerResp(200, "ok", TRUE)
     ELSE IF broker = "refused" THEN HandlerResp(422, "broker refused", FALSE)
     ELSE [by |-> "raise"]

\* an exception out of call_next leaves dispatch; the server answers 500
ServerError == [by |-> "server", shape |-> "error", reason |-> "Internal Server Error", status |-> 500, body_corr |-> NoCorr, hdr_corr |-> NoCorr, submitted |-> FALSE]

\* resp.headers.setdefault("X-Correlation-Id", corr)
AttachCorr(response, c) == IF response.hdr_corr = NoCorr THEN [response EXCEPT !.hdr_corr = c] ELSE response

\* (mutant) the dry_run flag is not looked at
CountsDryRuns(rq, response) == 200 <= response.status /\ response.status < 300

\* if not dry_run and 200 <= resp.status_code < 300
Counts(rq, response) == ~json_body_fields(rq.body).dry_run /\ 200 <= response.status /\ response.status < 300

\* ---- call_next returns, lines 208-211 and 223-224
Downstream(r) ==
  /\ pc[r] = "down_wait"
  /\ Scheduled(r)
  /\ \E broker \in BrokerOutcomes :
       LET response == intent(request[r], SHARED_SECRET, broker)
       IN IF response.by = "raise" THEN Done(r, ServerError)
          ELSE IF Counts(request[r], response)
          THEN /\ resp' = [resp EXCEPT ![r] = response]
               /\ pc' = [pc EXCEPT ![r] = "incr"]
          ELSE Done(r, AttachCorr(response, corr[r]))
  /\ UNCHANGED <<pos_reply, clock, SHARED_SECRET, V2_REQUIRED, rate_ip, rate_global, idempotency, trades_today, state_lock, request, now, corr, today, trace, arrivals>>

\* ---- the counter increment, lines 212-218, then 223-224
Incremented(td, nowday) == <<nowday, Rolled(td, nowday)[2] + 1>>

Increment(r) ==
  /\ pc[r] = "incr_cs"
  /\ Scheduled(r)
  /\ state_lock = r
  /\ trades_today' = Incremented(trades_today, UtcDay(clock))
  /\ Release(r)
  /\ Done(r, AttachCorr(resp[r], corr[r]))
  /\ UNCHANGED <<pos_reply, clock, SHARED_SECRET, V2_REQUIRED, rate_ip, rate_global, idempotency, request, now, corr, today, trace, arrivals>>

\* ---- passthrough, lines 102-113: return await call_next(request)
PassStatuses == {200, 404}
Passthrough(r) ==
  /\ pc[r] = "pass_wait"
  /\ Scheduled(r)
  /\ \E code \in PassStatuses : Done(r, HandlerResp(code, "passthrough", FALSE))
  /\ UNCHANGED <<pos_reply, clock, SHARED_SECRET, V2_REQUIRED, rate_ip, rate_global, idempotency, trades_today, state_lock, request, now, corr, today, trace, arrivals>>

\* the response has been sent; the slot is free for the next request
Retire(r) ==
  /\ pc[r] = "done"
  /\ Scheduled(r)
  /\ pc' = [pc EXCEPT ![r] = "idle"]
  /\ request' = [request EXCEPT ![r] = NoRequest]
  /\ now' = [now EXCEPT ![r] = -1]
  /\ corr' = [corr EXCEPT ![r] = NoCorr]
  /\ today' = [today EXCEPT ![r] = -1]
  /\ resp' = [resp EXCEPT ![r] = NoResp]
  /\ trace' = [trace EXCEPT ![r] = <<>>]
  /\ pos_reply' = [pos_reply EXCEPT ![r] = NoReply]
  /\ UNCHANGED <<clock, SHARED_SECRET, V2_REQUIRED, rate_ip, rate_global, idempotency, trades_today, state_lock, arrivals>>

\* time passes
Tick ==
  /\ clock' \in {t \in Instants : t > clock}
  /\ UNCHANGED <<pos_reply, SHARED_SECRET, V2_REQUIRED, rate_ip, rate_global, idempotency, trades_today, state_lock, pc, request, now, corr, today, resp, trace, arrivals>>

\* what a request in slot r does after it was dispatched
Step(r) ==
  \/ AcquireLock(r)
  \/ RateLimit(r)
  \/ Signature(r)
  \/ IdemSkip(r)
  \/ Idempotency(r)
  \/ Session(r)
  \/ TradeCap(r)
  \/ PositionCap(r)
  \/ Downstream(r)
  \/ Increment(r)
  \/ Passthrough(r)
  \/ Retire(r)

Next ==
  \/ Tick
  \/ \E r \in Reqs : Dispatch(r)
  \/ \E r \in Reqs : Step(r)

Spec == Init /\ [][Next]_vars

\* ---- Concurrent requests: up to NumReqs in flight, from a small family
FewRequests(t) ==
  { MkRequest("POST", "/intent", "buy", FromA, NoCorrHdr, Key1, LegacyGood("buy")),
    MkRequest("POST", "/intent", "sell", FromA, BothCorrHdr, Key1, V2Good(t, "sell")),
    MkRequest("POST", "/intent", "dry", FromB, ReqIdHdr, NoKey, LegacyGood("dry")),
    MkRequest("POST", "/intent", "buy", FromB, NoCorrHdr, Key2, LegacyBad("buy")),
    MkRequest("GET", "/status", "buy", FromA, NoCorrHdr, NoKey, Unsigned) }

DispatchConc(r) == DispatchFrom(r, FewRequests(clock), NumReqs)

InitConc == Init /\ SHARED_SECRET = "s3cret" /\ ~V2_REQUIRED

NextConc ==
  \/ Tick
  \/ \E r \in Reqs : DispatchConc(r)
  \/ \E r \in Reqs : Step(r)

SpecConc == InitConc /\ [][NextConc]_vars

\* ---- One request after another with the clock standing at any instant of a
\* week: the session evaluation over every weekday and time of day
Week == 0..(7 * DayLen - 1)

InitWeek ==
  /\ clock \in Week
  /\ SHARED_SECRET = "s3cret" /\ V2_REQUIRED = FALSE
  /\ rate_ip = [i \in IPs |-> <<>>]
  /\ rate_global = <<>>
  /\ idempotency = [k \in {} |-> 0]
  /\ trades_today = <<-1, 0>>
  /\ state_lock = 0
  /\ pc = [r \in Reqs |-> "idle"]
  /\ request = [r \in Reqs |-> NoRequest]
  /\ now = [r \in Reqs |-> -1]
  /\ corr = [r \in Reqs |-> NoCorr]
  /\ today = [r \in Reqs |-> -1]
  /\ resp = [r \in Reqs |-> NoResp]
  /\ trace = [r \in Reqs |-> <<>>]
  /\ pos_reply = [r \in Reqs |-> NoReply]
  /\ arrivals = 0

DispatchWeek(r) == DispatchFrom(r, FewRequests(clock), 1)

NextWeek ==
  \/ \E r \in Reqs : DispatchWeek(r)
  \/ \E r \in Reqs : Step(r)

SpecWeek == InitWeek /\ [][NextWeek]_vars

\* ---- Concurrent requests without a shared idempotency key: the race on the
\* trade counter
RaceRequests ==
  { MkRequest("POST", "/intent", "buy", FromA, NoCorrHdr, NoKey, LegacyGood("buy")),
    MkRequest("POST", "/intent", "sell", FromB, NoCorrHdr, NoKey, LegacyGood("sell")),
    MkRequest("POST", "/intent", "dry", FromB, ReqIdHdr, Key1, LegacyGood("dry")),
    MkRequest("GET", "/status", "buy", FromA, NoCorrHdr, NoKey, Unsigned) }

DispatchRace(r) == DispatchFrom(r, RaceRequests, NumReqs)

NextRace ==
  \/ Tick
  \/ \E r \in Reqs : DispatchRace(r)
  \/ \E r \in Reqs : Step(r)

SpecRace == InitConc /\ [][NextRace]_vars

\* ---- One request after another from two identities, with the versioned
\* signature mandated, and one arrival more: the global rate ceiling
RateRequests(t) ==
  { MkRequest("POST", "/intent", "buy", FromA, NoCorrHdr, NoKey, Unsigned),
    MkRequest("POST", "/intent", "buy", FromB, NoCorrHdr, NoKey, LegacyGood("buy")),
    MkRequest("POST", "/intent", "buy", FromB, NoCorrHdr, Key1, V2Good(t, "buy")),
    MkRequest("POST", "/intent", "dry", FromB, NoCorrHdr, NoKey, V2Good(t, "dry")),
    MkRequest("GET", "/status", "buy", FromA, NoCorrHdr, NoKey, Unsigned) }

InitRate == Init /\ SHARED_SECRET = "s3cret" /\ V2_REQUIRED

DispatchRate(r) == DispatchUpTo(r, RateRequests(clock), 1, MaxRateArrivals)

NextRate ==
  \/ Tick
  \/ \E r \in Reqs : DispatchRate(r)
  \/ \E r \in Reqs : Step(r)

SpecRate == InitRate /\ [][NextRate]_vars

\* ---- Concurrent requests under the event loop's fairness: a task that can
\* run is run, and an awaited call (the position source, call_next) returns
\* or fails
LiveRequests ==
  { MkRequest("POST", "/intent", "buy", FromA, NoCorrHdr, Key1, LegacyGood("buy")),
    MkRequest("POST", "/intent", "dry", FromB, ReqIdHdr, NoKey, LegacyGood("dry")),
    MkRequest("GET", "/status", "buy", FromA, NoCorrHdr, NoKey, Unsigned) }

\* as many requests as there are slots
DispatchLive(r) == DispatchUpTo(r, LiveRequests, NumReqs, NumReqs)

NextLive ==
  \/ Tick
  \/ \E r \in Reqs : DispatchLive(r)
  \/ \E r \in Reqs : Step(r)

SpecLive == InitConc /\ [][NextLive]_vars /\ \A r \in Reqs : WF_vars(Step(r))

\* ---- Properties
Guarded_(r) == pc[r] # "idle" /\ IsGuarded(request[r])
Stages == <<"RateLimit", "Signature", "Idempotency", "Session", "TradeCap", "PositionCap", "Forwarded">>
StagesNoPositions == <<"RateLimit", "Signature", "Idempotency", "Session", "TradeCap", "Forwarded">>
IsPrefix(s, t) == Len(s) <= Len(t) /\ SubSeq(t, 1, Len(s)) = s
Has(s, x) == \E i \in 1..Len(s) : s[i] = x
Last(s) == s[Len(s)]
GuardRejected(r) == resp[r].by = "guard"
\* the stage that issues a rejection
StageOfReason(reason) ==
  CASE reason = "rate_limit" -> "RateLimit"
    [] reason = "duplicate" -> "Idempotency"
    [] reason = "outside_session" -> "Session"
    [] reason = "trade_cap_reached" -> "TradeCap"
    [] reason = "position_cap_reached" -> "PositionCap"
    [] OTHER -> "Signature"
\* the request in slot r runs the stage in this step
Runs(r, stage) == Len(trace'[r]) > Len(trace[r]) /\ trace'[r][Len(trace[r]) + 1] = stage

C1_Order ==
  \A r \in Reqs : Guarded_(r) =>
    /\ IsPrefix(trace[r], Stages) \/ IsPrefix(trace[r], StagesNoPositions)
    /\ GuardRejected(r) =>
         /\ pc[r] = "done"
         /\ trace[r] # <<>> /\ Last(trace[r]) = StageOfReason(resp[r].reason)
         /\ ~Has(trace[r], "Forwarded")
    /\ (pc[r] \in {"down_wait", "incr", "incr_cs"} \/ resp[r].by \in {"handler", "server"}) =>
         /\ Has(trace[r], "Forwarded")
         /\ IsPrefix(SubSeq(Stages, 1, 5), trace[r])
    /\ (resp[r].by = "guard" /\ resp[r].reason = "rate_limit") => trace[r] = <<"RateLimit">>

C1_Frame ==
  /\ (rate_ip' # rate_ip \/ rate_global' # rate_global) => \E r \in Reqs : trace[r] = <<>> /\ Runs(r, "RateLimit")
  /\ idempotency' # idempotency => \E r \in Reqs : trace[r] = SubSeq(Stages, 1, 2) /\ Runs(r, "Idempotency")
  /\ trades_today' # trades_today => \E r \in Reqs : IsPrefix(SubSeq(Stages, 1, 4), trace[r]) /\ ~GuardRejected(r)

\* C1: the guard runs RateLimit, Signature, Idempotency, Session, TradeCap,
\* PositionCap in this order and stops at the first stage that rejects: a
\* rejected request has run no later stage, the rate windows, the idempotency
\* map and the trade counter change only in a step of a request that reached
\* their stage unrejected, and the handler is invoked only after every stage
\* admitted the request.
C1_StageOrder == [](C1_Order) /\ [][C1_Frame]_vars

C1_Witness ==
  \E r \in Reqs : Guarded_(r) /\ pc[r] = "done" /\ resp[r].by = "guard" /\ resp[r].reason = "rate_limit" /\ HasV2(request[r])

DryRun(r) == json_body_fields(request[r].body).dry_run
RanStage(r, stage) == Has(trace[r], stage)
IsDuplicate(r) == pc[r] = "done" /\ GuardRejected(r) /\ resp[r].reason = "duplicate"

C2_Pair ==
  \A r1, r2 \in Reqs :
    ( /\ r1 # r2 /\ Guarded_(r1) /\ Guarded_(r2)
      /\ IdemOf(request[r1]) # "" /\ IdemOf(request[r1]) = IdemOf(request[r2])
      /\ RanStage(r1, "Idempotency") /\ RanStage(r2, "Idempotency")
      /\ ~IsDuplicate(r1)
      /\ now[r1] <= now[r2] /\ now[r2] < now[r1] + IDEMP_TTL_SECONDS )
    => /\ pc[r2] = "done"
       /\ resp[r2] = Rejected("duplicate", 409, corr[r2])
       /\ ~RanStage(r2, "Forwarded")

C2_First ==
  \A r \in Reqs :
    (Runs(r, "Idempotency") /\ IdemOf(request[r]) # "" /\ IdemOf(request[r]) \notin DOMAIN idempotency)
    => /\ pc'[r] = "session"
       /\ IdemOf(request[r]) \in DOMAIN idempotency'
       /\ idempotency'[IdemOf(request[r])] = now[r] + IDEMP_TTL_SECONDS

\* C2: of two requests with the same idempotency key that reach the
\* Idempotency stage less than ttl_seconds apart, the one that claims the key
\* is admitted and the key recorded with expiry now + ttl_seconds; the other
\* is rejected with duplicate, 409, and never forwarded, whatever the bodies.
C2_DuplicateWithinTtl == [](C2_Pair) /\ [][C2_First]_vars

C2_Witness ==
  \E r1, r2 \in Reqs :
    /\ r1 # r2 /\ Guarded_(r1) /\ Guarded_(r2)
    /\ IdemOf(request[r1]) = IdemOf(request[r2]) /\ IdemOf(request[r1]) # ""
    /\ request[r1].body # request[r2].body
    /\ RanStage(r1, "Forwarded") /\ IsDuplicate(r2) /\ resp[r2].status = 409
    /\ now[r1] < now[r2]

C3_Step ==
  \A r \in Reqs : Runs(r, "TradeCap") =>
    /\ (~DryRun(r) /\ trades_today[1] = today[r] /\ trades_today[2] >= MAX_TRADES_DAY) =>
         /\ pc'[r] = "done"
         /\ resp'[r] = Rejected("trade_cap_reached", 429, corr[r])
         /\ ~Has(trace'[r], "Forwarded")
         /\ trades_today' = trades_today
    /\ (~DryRun(r) /\ trades_today[1] = today[r] /\ trades_today[2] < MAX_TRADES_DAY) =>
         /\ pc'[r] # "done"
         /\ trades_today' = trades_today
    /\ DryRun(r) => pc'[r] = "down_wait" /\ resp'[r] = resp[r]

\* C3: with requests one at a time on one UTC day, a non-dry-run request that
\* reaches the trade cap while the day's count is at or above MAX_TRADES_DAY
\* is rejected with trade_cap_reached, 429, is not forwarded, and the count is
\* left as it was; below the ceiling it is not rejected; a dry-run request is
\* never rejected by the trade cap.
C3_TradeCap == [][C3_Step]_vars

C3_Witness ==
  \E r \in Reqs :
    /\ pc[r] = "done" /\ GuardRejected(r) /\ resp[r].reason = "trade_cap_reached"
    /\ trades_today = <<today[r], MAX_TRADES_DAY>>
    /\ arrivals = MAX_TRADES_DAY + 1

Is2xx(response) == 200 <= response.status /\ response.status < 300
Increments(r) == pc[r] = "incr_cs" /\ pc'[r] = "done"
Returns(r) == pc[r] # "done" /\ pc'[r] = "done"

C4_Step ==
  /\ \A r \in Reqs : Increments(r) =>
       /\ Guarded_(r) /\ RanStage(r, "Forwarded") /\ ~DryRun(r)
       /\ resp'[r].by = "handler" /\ Is2xx(resp'[r])
       /\ trades_today' = <<UtcDay(clock), (IF trades_today[1] = UtcDay(clock) THEN trades_today[2] ELSE 0) + 1>>
  /\ \A r \in Reqs : (Returns(r) /\ Guarded_(r) /\ resp'[r].by = "handler" /\ Is2xx(resp'[r]) /\ ~DryRun(r)) => Increments(r)
  /\ (~ \E r \in Reqs : Increments(r)) => (trades_today'[2] = trades_today[2] \/ trades_today'[2] = 0)

\* C4: the trade counter goes up by one in the step in which a forwarded,
\* non-dry-run request returns a 2xx response of the handler, in every such
\* step, and in no other step (a dry-run request, a non-2xx response and a
\* rejection leave the count or reset it to 0 on a new day).
C4_CountsSuccesses == [][C4_Step]_vars

C4_Witness ==
  /\ trades_today[2] = 2
  /\ \E r \in Reqs : pc[r] = "done" /\ Guarded_(r) /\ resp[r].by = "handler" /\ Is2xx(resp[r]) /\ ~DryRun(r) /\ trades_today[1] = UtcDay(clock)

TsOf(r) == request[r].x_signature_ts[1]
V2Matches(r) == request[r].x_signature_v2[1] = hmac_hex(SHARED_SECRET, Stamped(TsOf(r).val, request[r].body))
RejectedBySignature(r) == pc[r] = "done" /\ GuardRejected(r) /\ Last(trace[r]) = "Signature"

\* C5: a request with both versioned headers whose timestamp is more than
\* TS_SKEW_SECONDS from now is rejected with 403 and never forwarded, also
\* when its versioned signature is the HMAC of "{ts}.{body}"; with the
\* timestamp within the bound and the signature matching the configured
\* secret, the Signature stage does not reject it.
C5_StaleRejected ==
  \A r \in Reqs : (Guarded_(r) /\ RanStage(r, "Signature") /\ HasV2(request[r]) /\ TsOf(r).num) =>
    /\ Abs(now[r] - TsOf(r).val) > TS_SKEW_SECONDS =>
         /\ RejectedBySignature(r)
         /\ resp[r].status = 403
         /\ ~RanStage(r, "Forwarded")
    /\ (Abs(now[r] - TsOf(r).val) <= TS_SKEW_SECONDS /\ SHARED_SECRET # "" /\ V2Matches(r)) => ~RejectedBySignature(r)

C5_Witness ==
  \E r \in Reqs :
    /\ Guarded_(r) /\ HasV2(request[r]) /\ TsOf(r).num /\ SHARED_SECRET # "" /\ V2Matches(r)
    /\ Abs(now[r] - TsOf(r).val) > TS_SKEW_SECONDS
    /\ pc[r] = "done" /\ resp[r].status = 403

C6_Rewritten ==
  \A r \in Reqs :
    /\ (Runs(r, "Signature") /\ HasV2(request[r]) /\ pc'[r] = "idem") =>
         /\ Len(request'[r].x_signature) = 1
         /\ request'[r].x_signature[1] = hmac_hex(SHARED_SECRET, Raw(request[r].body))
    /\ (Guarded_(r) /\ pc'[r] # "idle") => request'[r].body = request[r].body

C6_Verifies ==
  \A r \in Reqs : (Guarded_(r) /\ HasV2(request[r]) /\ RanStage(r, "Forwarded")) =>
    /\ verify_signature(request[r], SHARED_SECRET) = 200
    /\ resp[r].by = "handler" => resp[r].status # 403

\* C6: a request that passes the versioned check is forwarded with its body
\* unchanged and exactly one legacy signature header, HMAC(secret, body), in
\* place of whatever the caller sent; the handler's legacy verification of the
\* forwarded request succeeds.
C6_LegacyInjected == [](C6_Verifies) /\ [][C6_Rewritten]_vars

C6_Witness ==
  \E r \in Reqs :
    /\ Guarded_(r) /\ HasV2(request[r]) /\ pc[r] = "done"
    /\ resp[r].by = "handler" /\ resp[r].status = 200 /\ resp[r].submitted

BadLegacy(r) ==
  /\ Guarded_(r)
  /\ ~HasV2(request[r])
  /\ request[r].x_signature = Absent \/ request[r].x_signature[1] # hmac_hex(SHARED_SECRET, Raw(request[r].body))

C7_State ==
  \A r \in Reqs : BadLegacy(r) =>
    /\ pc[r] \notin {"incr", "incr_cs"}
    /\ resp[r].by # "server"
    /\ resp[r].by = "handler" => resp[r].status \in {403, 500} /\ ~resp[r].submitted
    /\ (RanStage(r, "Signature") /\ ~V2_REQUIRED) => ~RejectedBySignature(r)

C7_Step ==
  \A r \in Reqs : (BadLegacy(r) /\ Runs(r, "Idempotency") /\ IdemOf(request[r]) # "" /\ pc'[r] = "session") =>
    /\ IdemOf(request[r]) \in DOMAIN idempotency'
    /\ idempotency'[IdemOf(request[r])] = now[r] + IDEMP_TTL_SECONDS

Within(dq, t, window) == {i \in 1..Len(dq) : t - dq[i] <= window}

C8_Step ==
  \A r \in Reqs : Runs(r, "RateLimit") =>
    LET w == rate_ip[client_ip(request[r])]
        t == now[r]
    IN Cardinality(Within(rate_global, t, RL_GLOBAL_WINDOW_S)) < RL_GLOBAL_MAX_REQ =>
         /\ (Len(w) = RL_MAX_REQ /\ Within(w, t, RL_WINDOW_S) = 1..Len(w)) =>
              pc'[r] = "done" /\ resp'[r] = Rejected("rate_limit", 429, corr[r])
         /\ Len(w) < RL_MAX_REQ => pc'[r] = "sig"
         /\ (w = <<>> \/ t - Last(w) > RL_WINDOW_S) => pc'[r] = "sig"

\* C8: with the global ceiling not reached, a request of an identity whose
\* window holds fewer than RL_MAX_REQ earlier requests is admitted, the
\* request that follows RL_MAX_REQ requests all within RL_WINDOW_S is the one
\* rejected with rate_limit, 429, and a request more than RL_WINDOW_S after
\* the identity's previous one is never rejected.
C8_RateLimit == [][C8_Step]_vars

C8_Witness ==
  \E r \in Reqs :
    /\ pc[r] = "done" /\ GuardRejected(r) /\ resp[r].reason = "rate_limit" /\ resp[r].status = 429
    /\ Len(rate_ip[client_ip(request[r])]) = RL_MAX_REQ + 1
    /\ Len(rate_global) <= RL_GLOBAL_MAX_REQ

\* C9 as stated (with a secret configured): every response on the guarded
\* path carries the correlation id as a response header, the caller's when
\* the caller sent one.
C9_Original ==
  \A r \in Reqs : (Guarded_(r) /\ pc[r] = "done" /\ SHARED_SECRET # "") =>
    /\ resp[r].hdr_corr = corr[r]
    /\ corr[r] = CorrOf(request[r], SHARED_SECRET, now[r])

StatusOfReason(reason) ==
  CASE reason = "rate_limit" -> 429
    [] reason = "duplicate" -> 409
    [] reason = "outside_session" -> 403
    [] reason = "trade_cap_reached" -> 429
    [] reason = "position_cap_reached" -> 409
    [] OTHER -> 403

\* C10 as stated (with a secret configured): every rejection of a guard stage
\* is a body with status "rejected", a reason and the correlation id, and its
\* status code is the one fixed for the reason.
C10_Original ==
  \A r \in Reqs : (Guarded_(r) /\ pc[r] = "done" /\ GuardRejected(r) /\ SHARED_SECRET # "") =>
    /\ resp[r].shape = "rejected"
    /\ resp[r].body_corr = corr[r]
    /\ resp[r].status = StatusOfReason(resp[r].reason)


\* a request on an allowlisted path, or not a POST to /intent
OffGuard(rq) == rq.path \in PATH_ALLOWLIST \/ rq.method # "POST" \/ rq.path \notin {"/intent", "/intent/"}
SharedState == <<rate_ip, rate_global, idempotency, trades_today>>

C11_State ==
  \A r \in Reqs : (pc[r] # "idle" /\ OffGuard(request[r])) =>
    /\ pc[r] \in {"pass_wait", "done"}
    /\ trace[r] = <<>>
    /\ pc[r] = "done" => resp[r].by = "handler"

C11_Step ==
  \A r \in Reqs :
    (pc'[r] # pc[r] /\ OffGuard(IF pc[r] = "idle" THEN request'[r] ELSE request[r])) =>
      /\ UNCHANGED SharedState
      /\ state_lock' = state_lock

\* C11: a request to an allowlisted path, or one that is not a POST to
\* /intent, goes straight to the handler: no guard stage runs for it, the
\* guard never rejects it, and no step of it changes the rate windows, the
\* idempotency map or the daily trade counter.
C11_Passthrough == [](C11_State) /\ [][C11_Step]_vars

C11_Witness ==
  \E r \in Reqs :
    /\ pc[r] = "done" /\ OffGuard(request[r]) /\ request[r].method = "GET"
    /\ resp[r].by = "handler"
    /\ rate_global # <<>> /\ DOMAIN idempotency # {}


\* C12 as stated: a claim of a key at or after the stored expiry (expiry at
\* or before now) finds the entry purged, is admitted as a first-time claim
\* and records the key again with expiry now + ttl_seconds.
C12_Original ==
  [][ \A r \in Reqs :
        ( /\ Runs(r, "Idempotency")
          /\ IdemOf(request[r]) \in DOMAIN idempotency
          /\ idempotency[IdemOf(request[r])] <= now[r] )
        => /\ pc'[r] = "session"
           /\ idempotency'[IdemOf(request[r])] = now[r] + IDEMP_TTL_SECONDS ]_vars


BuyForReal(r) == Lower(json_body_fields(request[r].body).side) = "buy" /\ ~DryRun(r)

C13_State ==
  \A r \in Reqs : Guarded_(r) =>
    /\ pc[r] = "pos_wait" => BuyForReal(r)
    /\ ~BuyForReal(r) =>
         /\ pos_reply[r] = NoReply
         /\ ~RanStage(r, "PositionCap")
         /\ ~(GuardRejected(r) /\ resp[r].reason = "position_cap_reached")

C13_Step ==
  \A r \in Reqs :
    /\ (pos_reply'[r] # pos_reply[r] /\ pc'[r] # "idle") => Runs(r, "PositionCap")
    /\ Runs(r, "PositionCap") =>
         LET reply == pos_reply'[r]
         IN /\ reply \in PositionReplies
            /\ (reply.kind = "list" /\ reply.n >= MAX_POSITIONS) =>
                 /\ pc'[r] = "done"
                 /\ resp'[r] = Rejected("position_cap_reached", 409, corr[r])
                 /\ ~Has(trace'[r], "Forwarded")
            /\ (reply.kind # "list" \/ reply.n < MAX_POSITIONS) =>
                 /\ pc'[r] = "down_wait"
                 /\ resp'[r] = resp[r]
                 /\ Has(trace'[r], "Forwarded")

InSession(t) == LocalWeekday(t) \notin {5, 6} /\ SESSION_START <= LocalTime(t) /\ LocalTime(t) <= SESSION_END

C14_Function == within_window_london(clock) <=> InSession(clock)

C14_Step ==
  \A r \in Reqs : Runs(r, "Session") =>
    IF InSession(clock)
    THEN pc'[r] = "cap" /\ resp'[r] = resp[r]
    ELSE /\ pc'[r] = "done"
         /\ resp'[r] = Rejected("outside_session", 403, corr[r])
         /\ ~Has(trace'[r], "Forwarded")

\* C14: the session evaluation rejects every instant of a Saturday or a
\* Sunday, and accepts an instant of Monday to Friday exactly when its local
\* time is from SESSION_START to SESSION_END, both ends included; a guarded
\* request that reaches the Session stage outside the session is rejected
\* with outside_session, 403, and not forwarded.
C14_Session == [](C14_Function) /\ [][C14_Step]_vars

C14_Witness ==
  \E r \in Reqs :
    /\ Guarded_(r) /\ RanStage(r, "Session") /\ pc[r] = "cap"
    /\ LocalWeekday(clock) = 4 /\ LocalTime(clock) = SESSION_END


BothV2(r) == request[r].x_signature_v2 # Absent /\ request[r].x_signature_ts # Absent

C15_State ==
  \A r \in Reqs : (Guarded_(r) /\ RanStage(r, "Signature") /\ ~BothV2(r)) =>
    IF V2_REQUIRED
    THEN /\ pc[r] = "done"
         /\ resp[r].by = "guard" /\ resp[r].status = 403
         /\ resp[r].reason = "v2 signature required"
         /\ Last(trace[r]) = "Signature"
         /\ ~RanStage(r, "Idempotency") /\ ~RanStage(r, "Forwarded")
    ELSE /\ ~RejectedBySignature(r)
         /\ pc[r] \in {"idem", "idem_cs"} \/ RanStage(r, "Idempotency")

C15_Step ==
  \A r \in Reqs : (Runs(r, "Signature") /\ ~BothV2(r)) =>
    /\ idempotency' = idempotency
    /\ (pc'[r] = "idem") <=> ~V2_REQUIRED

\* C15: a guarded request without both versioned headers goes on from the
\* Signature stage to the Idempotency stage exactly when the versioned
\* signature is not mandated; when it is mandated the request is rejected
\* with 403, is never forwarded and its idempotency key is not recorded.
C15_Mandate == [](C15_State) /\ [][C15_Step]_vars

C15_Witness ==
  \E r \in Reqs :
    /\ Guarded_(r) /\ ~BothV2(r) /\ V2_REQUIRED
    /\ request[r].x_signature # Absent
    /\ IdemOf(request[r]) # "" /\ IdemOf(request[r]) \notin DOMAIN idempotency
    /\ pc[r] = "done" /\ resp[r].status = 403 /\ Last(trace[r]) = "Signature"


CriticalPcs == {"rate_cs", "idem_cs", "cap_cs", "incr_cs"}
Holds(r) == state_lock = r

C16_State ==
  /\ \A r \in Reqs : Holds(r) <=> pc[r] \in CriticalPcs
  /\ Cardinality({r \in Reqs : pc[r] \in CriticalPcs}) <= 1
  /\ \A r \in Reqs : pc[r] \in {"pos_wait", "down_wait", "pass_wait", "done"} => ~Holds(r)

C16_Step ==
  /\ SharedState' # SharedState =>
       \E r \in Reqs : Holds(r) /\ pc[r] \in CriticalPcs /\ pc'[r] # pc[r] /\ state_lock' = 0
  /\ \A r \in Reqs :
       ( \/ Runs(r, "RateLimit")
         \/ Runs(r, "Idempotency") /\ IdemOf(request[r]) # ""
         \/ Runs(r, "TradeCap")
         \/ pc[r] = "incr_cs" /\ pc'[r] # pc[r] )
       => Holds(r) /\ state_lock' = 0

\* C16: the rate windows, the idempotency map and the trade counter are read
\* and changed only in a step of the request that holds the state lock, and
\* that step releases it, also when it rejects; at most one request holds
\* the lock; a request waiting for the position source or for the handler,
\* or one that has returned, does not hold it.
C16_LockDiscipline == [](C16_State) /\ [][C16_Step]_vars

C16_Witness ==
  \E r1, r2 \in Reqs :
    /\ pc[r1] = "pos_wait" /\ ~Holds(r1)
    /\ pc[r2] = "cap_cs" /\ Holds(r2)


Succeeded(r) == pc[r] = "done" /\ resp[r].by = "handler" /\ Is2xx(resp[r]) /\ resp[r].submitted

C17_State == trades_today[2] <= MAX_TRADES_DAY + NumReqs - 1

C17_Step ==
  \A r \in Reqs : (Runs(r, "TradeCap") /\ pc'[r] # "done") =>
    /\ trades_today'[2] = IF trades_today[1] = today[r] THEN trades_today[2] ELSE 0
    /\ trades_today'[2] < MAX_TRADES_DAY \/ DryRun(r)

\* C17: the trade-cap check reserves nothing: a request it admits leaves the
\* day's count as it found it, below the ceiling, so that requests in flight
\* together can each pass the check before any is counted, and the count can
\* pass the ceiling by as many as are in flight less one.  The witness is the
\* interleaving of the claim: two requests in flight pass the check at
\* MAX_TRADES_DAY - 1, both succeed, and the count ends at MAX_TRADES_DAY + 1.
C17_AdvisoryGate == [](C17_State) /\ [][C17_Step]_vars

C17_Witness ==
  \E r1, r2 \in Reqs :
    /\ r1 # r2
    /\ Guarded_(r1) /\ Guarded_(r2) /\ ~DryRun(r1) /\ ~DryRun(r2)
    /\ Succeeded(r1) /\ Succeeded(r2)
    /\ today[r1] = today[r2] /\ trades_today = <<today[r1], MAX_TRADES_DAY + 1>>


C18_Step ==
  \A r \in Reqs :
    /\ (Runs(r, "TradeCap") /\ trades_today[1] # today[r]) =>
         /\ trades_today' = <<today[r], 0>>
         /\ ~(pc'[r] = "done" /\ resp'[r].reason = "trade_cap_reached")
    /\ (Runs(r, "TradeCap") /\ trades_today[1] = today[r]) => trades_today' = trades_today
    /\ (pc[r] = "incr_cs" /\ pc'[r] # pc[r]) =>
         /\ trades_today'[1] = UtcDay(clock)
         /\ trades_today'[2] = IF trades_today[1] = UtcDay(clock) THEN trades_today[2] + 1 ELSE 1

\* C18: at the trade-cap check and at the increment after a success, a stored
\* day other than the current UTC day is first replaced by the current day
\* with count 0: an earlier day's count never rejects a request with
\* trade_cap_reached on a later day and is never carried over, and after an
\* increment the stored day is the current UTC day.
C18_LazyRollover == [][C18_Step]_vars

C18_Witness ==
  \E r \in Reqs :
    /\ Guarded_(r) /\ ~DryRun(r) /\ Succeeded(r)
    /\ today[r] < UtcDay(clock)
    /\ trades_today = <<UtcDay(clock), 1>>


AllWithin(dq, t, window) == \A i \in 1..Len(dq) : t - window <= dq[i] /\ dq[i] <= t
Ordered(dq) == \A i, j \in 1..Len(dq) : i < j => dq[i] <= dq[j]

C19_Step ==
  \A r \in Reqs : Runs(r, "RateLimit") =>
    LET w == rate_ip'[client_ip(request[r])]
        g == rate_global'
    IN /\ AllWithin(w, now[r], RL_WINDOW_S) /\ AllWithin(g, now[r], RL_GLOBAL_WINDOW_S)
       /\ Ordered(w) /\ Ordered(g)
       /\ w # <<>> /\ Last(w) = now[r]
       /\ g # <<>> /\ Last(g) = now[r]

\* C19: right after a rate-limit access at time now, every timestamp kept in
\* the identity's window is in [now - RL_WINDOW_S, now] and every timestamp
\* kept in the global window is in [now - RL_GLOBAL_WINDOW_S, now]; both
\* windows are ordered by time and end with now, whether the request was
\* admitted or rejected.
C19_RateWindows == [][C19_Step]_vars

C19_Witness ==
  \E r \in Reqs :
    /\ Guarded_(r) /\ trace[r] = <<"RateLimit">> /\ pc[r] = "sig"
    /\ rate_global = <<now[r]>> /\ rate_ip[client_ip(request[r])] = <<now[r]>>
    /\ DOMAIN idempotency # {}


NoKeySupplied(r) == ~Truthy(request[r].idempotency_key) /\ ~Truthy(request[r].x_idempotency_key)

C20_Step ==
  \A r \in Reqs : Runs(r, "Idempotency") =>
    /\ (pc'[r] = "done" /\ resp'[r].reason = "duplicate") =>
         /\ IdemOf(request[r]) \in DOMAIN idempotency
         /\ IdemOf(request[r]) \in DOMAIN idempotency'
         /\ idempotency'[IdemOf(request[r])] = idempotency[IdemOf(request[r])]
    /\ NoKeySupplied(r) =>
         /\ idempotency' = idempotency
         /\ pc'[r] = "session" /\ resp'[r] = resp[r]

\* C20: a request rejected as duplicate leaves the stored expiry of its key
\* as it was, so duplicates never extend the key's lifetime; a guarded
\* request without an idempotency key is treated as a first claim and leaves
\* the idempotency map unchanged.
C20_NoOverwrite == [][C20_Step]_vars

C20_Witness ==
  \E r \in Reqs :
    /\ IsDuplicate(r) /\ arrivals = MaxArrivals
    /\ IdemOf(request[r]) \in DOMAIN idempotency
    /\ idempotency[IdemOf(request[r])] < now[r] + IDEMP_TTL_SECONDS - 1


SameKey(r1, r2) ==
  /\ r1 # r2 /\ Guarded_(r1) /\ Guarded_(r2)
  /\ IdemOf(request[r1]) # "" /\ IdemOf(request[r1]) = IdemOf(request[r2])
PassedIdempotency(r) == RanStage(r, "Idempotency") /\ ~IsDuplicate(r)

\* C21: of the requests in flight together that carry the same idempotency
\* key and arrived less than ttl_seconds apart, at most one passes the
\* Idempotency stage and at most one is handed to the handler; every other
\* one that ran the stage is rejected as duplicate.
C21_OneClaimant ==
  \A r1, r2 \in Reqs :
    ( /\ SameKey(r1, r2)
      /\ RanStage(r1, "Idempotency") /\ RanStage(r2, "Idempotency")
      /\ Abs(now[r1] - now[r2]) < IDEMP_TTL_SECONDS )
    => /\ ~(PassedIdempotency(r1) /\ PassedIdempotency(r2))
       /\ ~(RanStage(r1, "Forwarded") /\ RanStage(r2, "Forwarded"))
       /\ IsDuplicate(r1) \/ IsDuplicate(r2)

C21_Witness ==
  \E r1, r2 \in Reqs :
    /\ SameKey(r1, r2)
    /\ pc[r1] \in {"pos_wait", "down_wait"}
    /\ IsDuplicate(r2) /\ now[r2] > now[r1]


\* C22: with requests handled one at a time, the stored daily trade count is
\* never above MAX_TRADES_DAY, whatever the requests, the handler's answers
\* and the day changes.
C22_CountWithinCeiling == trades_today[2] <= MAX_TRADES_DAY

C22_Witness ==
  /\ trades_today[1] > UtcDay(StartTime)
  /\ trades_today[2] = MAX_TRADES_DAY
  /\ \E r \in Reqs : Guarded_(r) /\ ~DryRun(r) /\ Succeeded(r)


\* the request claimed its key and then failed: rejected by a later stage, or
\* answered by the handler with a status other than 2xx
FailedAfterClaim(r) ==
  /\ Guarded_(r) /\ IdemOf(request[r]) # "" /\ PassedIdempotency(r)
  /\ pc[r] = "done" /\ ~resp[r].submitted
  /\ \/ GuardRejected(r) /\ resp[r].reason \in {"outside_session", "trade_cap_reached", "position_cap_reached"}
     \/ resp[r].by = "handler" /\ ~Is2xx(resp[r])

C23_State ==
  \A r \in Reqs : FailedAfterClaim(r) =>
    \/ /\ IdemOf(request[r]) \in DOMAIN idempotency
       /\ idempotency[IdemOf(request[r])] >= now[r] + IDEMP_TTL_SECONDS
    \/ clock > now[r] + IDEMP_TTL_SECONDS

C23_Step ==
  /\ \A k \in DOMAIN idempotency :
       (k \notin DOMAIN idempotency' \/ idempotency'[k] # idempotency[k]) =>
         \E r \in Reqs : Runs(r, "Idempotency") /\ idempotency[k] <= now[r]
  /\ \A r \in Reqs :
       ( /\ Runs(r, "Idempotency")
         /\ IdemOf(request[r]) \in DOMAIN idempotency
         /\ now[r] < idempotency[IdemOf(request[r])] )
       => pc'[r] = "done" /\ resp'[r] = Rejected("duplicate", 409, corr[r])

\* C23: a claimed key is never released before its expiry: no step removes or
\* changes an entry that has not expired, so the key of a request that was
\* afterwards rejected by the Session stage or a cap, or answered non-2xx by
\* the handler, stays in the map, and a retry with the key before the expiry
\* is rejected as duplicate although no order was submitted.
C23_KeyHeld == [](C23_State) /\ [][C23_Step]_vars

C23_Witness ==
  \E r1, r2 \in Reqs :
    /\ SameKey(r1, r2)
    /\ FailedAfterClaim(r1)
    /\ IsDuplicate(r2) /\ now[r2] < now[r1] + IDEMP_TTL_SECONDS


Kept(dq, t, window) == Cardinality(Within(dq, t, window))
RateRejected(r) == pc[r] = "done" /\ GuardRejected(r) /\ resp[r].reason = "rate_limit"

C24_Step ==
  \A r \in Reqs : Runs(r, "RateLimit") =>
    LET ip == client_ip(request[r])
        w == Kept(rate_ip[ip], now[r], RL_WINDOW_S)
        g == Kept(rate_global, now[r], RL_GLOBAL_WINDOW_S)
    IN /\ Len(rate_ip'[ip]) = w + 1 /\ Last(rate_ip'[ip]) = now[r]
       /\ Len(rate_global') = g + 1 /\ Last(rate_global') = now[r]
       /\ \A i \in IPs \ {ip} : rate_ip'[i] = rate_ip[i]
       /\ (pc'[r] = "done") <=> (w + 1 > RL_MAX_REQ \/ g + 1 > RL_GLOBAL_MAX_REQ)
       /\ pc'[r] = "done" => resp'[r] = Rejected("rate_limit", 429, corr[r])

\* C24: a guarded request adds its timestamp to its identity's window and to
\* the global window before the ceilings are tested, and the timestamp stays
\* when the request is rejected: the request is rejected exactly when the
\* entries still in a window, those of rejected requests included, with its
\* own exceed the ceiling.  The witness is a request of one identity rejected
\* on the global ceiling alone, which the rejected request of another
\* identity helped to reach.
C24_RejectedCount == [][C24_Step]_vars

C24_Witness ==
  \E r \in Reqs :
    /\ Guarded_(r) /\ RateRejected(r)
    /\ Len(rate_ip[client_ip(request[r])]) <= RL_MAX_REQ
    /\ \E other \in IPs \ {client_ip(request[r])} : Len(rate_ip[other]) > RL_MAX_REQ
    /\ Len(rate_global) > RL_GLOBAL_MAX_REQ
    /\ Last(rate_global) = now[r]


Responded(r) == pc[r] = "done" /\ resp[r].by \in {"guard", "handler", "server"}

C25_OneResponse ==
  \A r \in Reqs :
    /\ pc'[r] = "done" => Responded(r)'
    /\ pc[r] = "done" => (pc'[r] = "done" /\ resp'[r] = resp[r]) \/ pc'[r] = "idle"

C25_Completes == \A r \in Reqs : (pc[r] # "idle") ~> Responded(r)

C25_LockReleased == \A r \in Reqs : (state_lock = r) ~> (state_lock = 0)

\* C25: every request that was dispatched eventually returns, with one
\* response that does not change afterwards: a rejection of the guard, the
\* handler's response, or the server's 500 when the handler's call failed;
\* and the state lock, once taken, is eventually released.
C25_Termination == [][C25_OneResponse]_vars /\ C25_Completes /\ C25_LockReleased

C25_Witness ==
  \E r1, r2 \in Reqs :
    /\ r1 # r2 /\ Guarded_(r1) /\ Guarded_(r2)
    /\ Responded(r1) /\ resp[r1].by = "server"
    /\ Responded(r2) /\ resp[r2].by = "handler"

====
